---- MODULE Spec2Model ----
(***************************************************************************)
(* Model of src/lemonde_scraper.py: one run of main(), which calls         *)
(* LeMondeScraper.scrape_with_requests and, when that yields no comment,   *)
(* LeMondeScraper.scrape_with_selenium.                                    *)
(*                                                                         *)
(* Python values are records tagged by `ty`.  What the outside world       *)
(* answers (the HTTP response, the parsed document's matches, the browser, *)
(* the live DOM) is drawn with \E at the statement that reads it.          *)
(***************************************************************************)
EXTENDS Integers, Sequences, FiniteSets, TLC

VARIABLES
  headless,        \* LeMondeScraper.__init__ argument
  max_scroll,      \* scrape_with_selenium argument
  pc,              \* the statement the run is at
  title,           \* local `title` of the running extractor
  comments,        \* local `comments` of the running extractor
  failure,         \* the exception the running extractor caught or let go
  pending,         \* elements/scripts of the current loop not yet visited
  elem,            \* loop variable `div` (requests) / `elem` (selenium)
  script,          \* loop variable `script`
  selector,        \* index into comment_selectors
  i,               \* pagination iterations completed
  scrolls,         \* window.scrollTo calls executed
  lastCue,         \* what the load-more step of the latest iteration did
  driver,          \* local `driver` of scrape_with_selenium
  sessionOpen,     \* whether a browser session is open
  launches,        \* browser sessions launched
  quitCalls,       \* driver.quit() calls
  requestsCalls,   \* calls of scrape_with_requests
  seleniumCalls,   \* calls of scrape_with_selenium
  staticResult,    \* what scrape_with_requests returned
  seleniumResult,  \* what scrape_with_selenium returned (or Raised)
  data,            \* main's `data`
  report           \* which final branch main took

vars == <<headless, max_scroll, pc, title, comments, failure, pending, elem,
          script, selector, i, scrolls, lastCue, driver, sessionOpen,
          launches, quitCalls, requestsCalls, seleniumCalls, staticResult,
          seleniumResult, data, report>>

---------------------------------------------------------------------------
(* Bounds of the explored inputs.                                          *)

\* matches of the div cascade in one static document
MaxDivs == 2
\* application/json script blocks in one static document
MaxScripts == 2
\* elements one find_elements call hands back, and comments kept per run
MaxElems == 2

(* Program constants.                                                      *)

DEFAULT_MAX_SCROLL == 5
MIN_COMMENT_LEN == 20

---------------------------------------------------------------------------
(* Python values.                                                          *)

None == [ty |-> "NoneType"]
Str(s) == [ty |-> "str", s |-> s]
PyInt == [ty |-> "int"]
PyList(xs) == [ty |-> "list", items |-> xs]
PyDict(d) == [ty |-> "dict", d |-> d]
\* a call that has not returned yet / a call left by an exception
NotCalled == [ty |-> "pending"]
\* webdriver.Chrome(...)
Chrome == [ty |-> "WebDriver"]
Raised == [ty |-> "raised"]

URL == "https://www.lemonde.fr/idees/article/2025/09/12/article.html"

Result(t, cs) == [ty |-> "dict", url |-> URL, title |-> t, comments |-> cs]

Comment(t, a, d) == [text |-> t, author |-> a, date |-> d]

\* `x or y`
PyOr(x, y) == IF x = None \/ x = Str("") THEN y ELSE x

---------------------------------------------------------------------------
(* Text: a sequence of characters.                                         *)

Rep(c, n) == [k \in 1..n |-> c]

RECURSIVE LStrip(_)
LStrip(s) == IF s # <<>> /\ Head(s) = " " THEN LStrip(Tail(s)) ELSE s

RECURSIVE RStrip(_)
RStrip(s) ==
  IF s # <<>> /\ s[Len(s)] = " " THEN RStrip(SubSeq(s, 1, Len(s) - 1)) ELSE s

\* str.strip() / get_text(strip=True) of a single text node
Strip(s) == RStrip(LStrip(s))

\* 20 visible characters between two blanks
Text20 == <<" ">> \o Rep("x", 20) \o <<" ">>
\* 21 visible characters, one of them an inner blank
Text21 == Rep("x", 10) \o <<" ">> \o Rep("y", 10)
Short == <<"s", "h", "o", "r", "t">>

Texts == {Text20, Text21}

---------------------------------------------------------------------------
(* Candidate elements: their text content and what the author and date     *)
(* selectors match inside them (None: no match).                           *)

AuthorMatches == {None, [ty |-> "Tag", text |-> "Alice"]}

DateMatches ==
  { None,
    [ty |-> "Tag", datetime |-> Str("2024-01-01"), text |-> "x"],
    [ty |-> "Tag", datetime |-> None, text |-> "hier"] }

Elements == [text : Texts, author : AuthorMatches, date : DateMatches]

NoElem == [ty |-> "NoneType"]

extract_author(element) ==
  IF element.author # None THEN Str(element.author.text) ELSE Str("Anonyme")

extract_date(element) ==
  IF element.date # None
    THEN PyOr(element.date.datetime, Str(element.date.text))
    ELSE Str("")

\* the other sentinel
extract_author_selenium_english(element) ==
  IF element.author # None THEN Str(element.author.text) ELSE Str("Anonymous")

extract_author_selenium(element) ==
  IF element.author # None THEN Str(element.author.text) ELSE Str("Anonyme")

extract_date_selenium(element) ==
  IF element.date # None
    THEN PyOr(element.date.datetime, Str(element.date.text))
    ELSE Str("")

\* the threshold taken as inclusive
KeepDivAtLeast(comment_text) == Len(comment_text) >= MIN_COMMENT_LEN

\* line 81: len(comment_text) > 20
KeepDiv(comment_text) == Len(comment_text) > MIN_COMMENT_LEN

\* line 174: len(text) > 20
KeepElem(text) == Len(text) > MIN_COMMENT_LEN

\* lines 80-86: what one div adds to `comments`
DivComments(div) ==
  LET comment_text == Strip(div.text)
  IN  IF KeepDiv(comment_text)
        THEN << Comment(Str(comment_text), extract_author(div), extract_date(div)) >>
        ELSE << >>

\* lines 173-179: what one element adds to `comments`
ElemComments(e) ==
  LET text == Strip(e.text)
  IN  IF KeepElem(text)
        THEN << Comment(Str(text), extract_author_selenium(e),
                        extract_date_selenium(e)) >>
        ELSE << >>

---------------------------------------------------------------------------
(* Embedded application/json script blocks.                                *)

EntryEmpty == PyDict(<< >>)
EntryShort == PyDict("text" :> Str(Short))
EntryFull ==
  PyDict(("text" :> Str(Text21)) @@ ("author" :> Str("Bob"))
           @@ ("date" :> Str("2024-01-01")))
EntryNullDate == PyDict(("text" :> Str(Short)) @@ ("date" :> None))

EntryLists ==
  { << >>, <<EntryEmpty>>, <<EntryShort>>, <<EntryFull, EntryNullDate>>,
    <<EntryFull, Str(Short)>> }

\* values of the 'comments' key
CommentsValues ==
  {PyList(xs) : xs \in EntryLists} \cup {None, PyInt, Str(<<"a", "b">>)}

\* what json.loads can hand back
DataValues ==
  {PyInt, PyDict(<< >>)} \cup {PyDict("comments" :> cv) : cv \in CommentsValues}

\* script.string: None for a tag without a single text child, else the text,
\* which either parses to `value` or does not parse
ScriptSet ==
  { [string |-> None], [string |-> [ty |-> "str", parses |-> FALSE]] }
    \cup { [string |-> [ty |-> "str", parses |-> TRUE, value |-> v]] :
             v \in DataValues }

NoScript == [ty |-> "NoneType"]

json_loads(s) ==
  IF s.ty # "str" THEN [exc |-> "TypeError"]
  ELSE IF ~s.parses THEN [exc |-> "JSONDecodeError"]
  ELSE [exc |-> "", value |-> s.value]

\* iter(v) of `for comment in data['comments']`
Iterate(v) ==
  CASE v.ty = "list" -> [exc |-> "", items |-> v.items]
    [] v.ty = "str" -> [exc |-> "", items |-> [k \in 1..Len(v.s) |-> Str(<<v.s[k]>>)]]
    [] OTHER -> [exc |-> "TypeError"]

\* comment.get(key, default)
DictGet(comment, key, default) ==
  IF key \in DOMAIN comment.d THEN comment.d[key] ELSE default

RECURSIVE EntryComments(_)
EntryComments(items) ==
  IF items = << >> THEN [exc |-> "", comments |-> << >>]
  ELSE LET comment == Head(items)
       IN  IF comment.ty # "dict" THEN [exc |-> "AttributeError"]
           ELSE LET rest == EntryComments(Tail(items))
                IN  IF rest.exc # "" THEN rest
                    ELSE [exc |-> "",
                          comments |->
                            << Comment(DictGet(comment, "text", Str(<< >>)),
                                       DictGet(comment, "author", Str("Anonyme")),
                                       DictGet(comment, "date", Str(""))) >>
                              \o rest.comments]

\* lines 92-99: the comments one script block adds, or the exception raised
ScriptComments(s) ==
  LET loaded == json_loads(s.string)
  IN  IF loaded.exc # "" THEN loaded
      ELSE LET d == loaded.value
           IN  IF d.ty = "dict" /\ "comments" \in DOMAIN d.d
                 THEN LET it == Iterate(d.d["comments"])
                      IN  IF it.exc # "" THEN it ELSE EntryComments(it.items)
                 ELSE [exc |-> "", comments |-> << >>]

---------------------------------------------------------------------------
(* main and the two extractors.                                            *)

\* values of the max_scroll argument; main passes none, so the default applies
ScrollArgs == {0, 1, DEFAULT_MAX_SCROLL}

comment_selectors ==
  << "[class*='comment']", "[data-testid*='comment']", ".comment",
     ".discussion-item", "[role='article']" >>

\* lines 71-72: the text of the h1 or title element, or the fallback
StaticTitles == {"title_elem text", "Titre non trouve"}

\* headless is the constructor's argument (main uses the default, True);
\* with False, __init__ never sets self.chrome_options (lines 44-51)
Init ==
  /\ headless \in BOOLEAN
  /\ max_scroll \in ScrollArgs
  /\ pc = "main_start"
  /\ title = ""
  /\ comments = << >>
  /\ failure = ""
  /\ pending = 0
  /\ elem = NoElem
  /\ script = NoScript
  /\ selector = 0
  /\ i = 0
  /\ scrolls = 0
  /\ lastCue = "none"
  /\ driver = None
  /\ sessionOpen = FALSE
  /\ launches = 0
  /\ quitCalls = 0
  /\ requestsCalls = 0
  /\ seleniumCalls = 0
  /\ staticResult = NotCalled
  /\ seleniumResult = NotCalled
  /\ data = None
  /\ report = ""

args == <<headless, max_scroll>>
browser == <<driver, sessionOpen, launches, quitCalls>>
paging == <<i, scrolls, lastCue>>
calls == <<requestsCalls, seleniumCalls>>
returned == <<staticResult, seleniumResult, data, report>>

\* line 267
MainStart ==
  /\ pc = "main_start"
  /\ requestsCalls' = requestsCalls + 1
  /\ pc' = "requests_get"
  /\ UNCHANGED <<args, title, comments, failure, pending, elem, script,
                 selector, paging, browser, seleniumCalls, returned>>

\* lines 110-112
RequestsFail(exc) ==
  /\ failure' = exc
  /\ staticResult' = None
  /\ pc' = "requests_returned"

\* lines 65-78
RequestsGet ==
  /\ pc = "requests_get"
  /\ \/ /\ \E exc \in {"ConnectionError", "HTTPError"} : RequestsFail(exc)
        /\ UNCHANGED <<title, comments, pending>>
     \/ /\ \E t \in StaticTitles : title' = t
        /\ comments' = << >>
        /\ \E n \in 0..MaxDivs : pending' = n
        /\ pc' = "requests_divs"
        /\ UNCHANGED <<failure, staticResult>>
  /\ UNCHANGED <<args, elem, script, selector, paging, browser, calls,
                 seleniumResult, data, report>>

\* lines 79-86
RequestsDiv ==
  /\ pc = "requests_divs"
  /\ pending > 0
  /\ \E div \in Elements :
       /\ elem' = div
       /\ comments' = comments \o DivComments(div)
  /\ pending' = pending - 1
  /\ UNCHANGED <<args, pc, title, failure, script, selector, paging, browser,
                 calls, returned>>

\* line 89
RequestsFindScripts ==
  /\ pc = "requests_divs"
  /\ pending = 0
  /\ \E n \in 0..MaxScripts : pending' = n
  /\ elem' = NoElem
  /\ pc' = "requests_scripts"
  /\ UNCHANGED <<args, title, comments, failure, script, selector, paging,
                 browser, calls, returned>>

\* lines 90-101
RequestsScript ==
  /\ pc = "requests_scripts"
  /\ pending > 0
  /\ \E s \in ScriptSet :
       /\ script' = s
       /\ LET r == ScriptComments(s)
          IN  CASE r.exc = "" ->
                     /\ comments' = comments \o r.comments
                     /\ pending' = pending - 1
                     /\ UNCHANGED <<pc, failure, staticResult>>
                [] r.exc = "JSONDecodeError" ->
                     /\ pending' = pending - 1
                     /\ UNCHANGED <<pc, comments, failure, staticResult>>
                [] OTHER ->
                     /\ RequestsFail(r.exc)
                     /\ UNCHANGED <<comments, pending>>
  /\ UNCHANGED <<args, title, elem, selector, paging, browser, calls,
                 seleniumResult, data, report>>

\* lines 103-108
RequestsReturn ==
  /\ pc = "requests_scripts"
  /\ pending = 0
  /\ staticResult' = Result(title, comments)
  /\ pc' = "requests_returned"
  /\ UNCHANGED <<args, title, comments, failure, pending, elem, script,
                 selector, paging, browser, calls, seleniumResult, data, report>>

\* `data and data['comments']`
HasComments(d) == d # None /\ d.comments # << >>

\* the fallback taken only when no result record came back
UseSeleniumOnlyIfNone(d) == d = None

\* line 269: the else branch is taken
UseSelenium(d) == ~HasComments(d)

\* lines 267-277
MainAfterRequests ==
  /\ pc = "requests_returned"
  /\ data' = staticResult
  /\ IF UseSelenium(staticResult)
       THEN /\ seleniumCalls' = seleniumCalls + 1
            /\ pc' = "selenium_launch"
       ELSE /\ pc' = "main_save"
            /\ UNCHANGED seleniumCalls
  /\ title' = ""
  /\ comments' = << >>
  /\ failure' = ""
  /\ script' = NoScript
  /\ UNCHANGED <<args, pending, elem, selector, paging, browser,
                 requestsCalls, staticResult, seleniumResult, report>>

\* lines 190-192
SeleniumFail(exc) ==
  /\ failure' = exc
  /\ seleniumResult' = None
  /\ pc' = "selenium_finally"

\* lines 125-129
SeleniumLaunch ==
  /\ pc = "selenium_launch"
  /\ \/ /\ ~headless
        /\ SeleniumFail("AttributeError")
        /\ UNCHANGED browser
     \/ /\ headless
        /\ SeleniumFail("WebDriverException")
        /\ UNCHANGED browser
     \/ /\ headless
        /\ driver' = Chrome
        /\ sessionOpen' = TRUE
        /\ launches' = launches + 1
        /\ SeleniumFail("JavascriptException")
        /\ UNCHANGED quitCalls
     \/ /\ headless
        /\ driver' = Chrome
        /\ sessionOpen' = TRUE
        /\ launches' = launches + 1
        /\ pc' = "selenium_load"
        /\ UNCHANGED <<quitCalls, failure, seleniumResult>>
  /\ UNCHANGED <<args, title, comments, pending, elem, script, selector,
                 paging, calls, staticResult, data, report>>

\* lines 131-136
SeleniumLoad ==
  /\ pc = "selenium_load"
  /\ \/ \E exc \in {"WebDriverException", "TimeoutException"} : SeleniumFail(exc)
     \/ /\ pc' = "selenium_title"
        /\ UNCHANGED <<failure, seleniumResult>>
  /\ UNCHANGED <<args, title, comments, pending, elem, script, selector,
                 paging, browser, calls, staticResult, data, report>>

\* lines 139-142
SeleniumTitle ==
  /\ pc = "selenium_title"
  /\ \/ /\ \E t \in {"h1", "driver.title"} : title' = t
        /\ pc' = "selenium_scroll"
        /\ UNCHANGED <<failure, seleniumResult>>
     \/ /\ SeleniumFail("WebDriverException")
        /\ UNCHANGED title
  /\ UNCHANGED <<args, comments, pending, elem, script, selector, paging,
                 browser, calls, staticResult, data, report>>

\* one iteration too many
LoopContinuesInclusive(k, n) == k <= n

\* line 145: range(max_scroll) has a next value
LoopContinues(k, n) == k < n

\* lines 145-147, and 158 when the loop is over
SeleniumScroll ==
  /\ pc = "selenium_scroll"
  /\ \/ /\ LoopContinues(i, max_scroll)
        /\ scrolls' = scrolls + 1
        /\ lastCue' = "none"
        /\ pc' = "selenium_cue"
        /\ UNCHANGED <<i, failure, seleniumResult, selector, comments>>
     \/ /\ LoopContinues(i, max_scroll)
        /\ scrolls' = scrolls + 1
        /\ lastCue' = "none"
        /\ SeleniumFail("JavascriptException")
        /\ UNCHANGED <<i, selector, comments>>
     \/ /\ ~LoopContinues(i, max_scroll)
        /\ lastCue' = "none"
        /\ comments' = << >>
        /\ selector' = 1
        /\ pc' = "selenium_find"
        /\ UNCHANGED <<i, scrolls, failure, seleniumResult>>
  /\ UNCHANGED <<args, title, pending, elem, script, browser, calls,
                 staticResult, data, report>>

\* lines 150-155
SeleniumCue ==
  /\ pc = "selenium_cue"
  /\ \E outcome \in {"lookup_failed", "click_failed", "clicked"} :
       lastCue' = outcome
  /\ i' = i + 1
  /\ pc' = "selenium_scroll"
  /\ UNCHANGED <<args, title, comments, failure, pending, elem, script,
                 selector, scrolls, browser, calls, returned>>

\* lines 169-171, 180-181: find_elements raises (swallowed, next selector) or
\* hands back some handles
SeleniumFind ==
  /\ pc = "selenium_find"
  /\ selector <= Len(comment_selectors)
  /\ \/ /\ selector' = selector + 1
        /\ UNCHANGED <<pc, pending>>
     \/ /\ \E n \in 0..(MaxElems - Len(comments)) : pending' = n
        /\ pc' = "selenium_elem"
        /\ UNCHANGED selector
  /\ UNCHANGED <<args, title, comments, failure, elem, script, paging,
                 browser, calls, returned>>

\* lines 172-181: elem.text is read from the live page when the loop reaches
\* the handle; a read that raises is swallowed at 180-181 and the remaining
\* handles of this selector are never read
SeleniumElem ==
  /\ pc = "selenium_elem"
  /\ \/ /\ pending > 0
        /\ \E e \in Elements :
             /\ elem' = e
             /\ comments' = comments \o ElemComments(e)
        /\ pending' = pending - 1
        /\ UNCHANGED <<pc, selector>>
     \/ /\ pending > 0
        /\ elem' = NoElem
        /\ pending' = 0
        /\ selector' = selector + 1
        /\ pc' = "selenium_find"
        /\ UNCHANGED comments
     \/ /\ pending = 0
        /\ elem' = NoElem
        /\ selector' = selector + 1
        /\ pc' = "selenium_find"
        /\ UNCHANGED <<comments, pending>>
  /\ UNCHANGED <<args, title, failure, script, paging, browser, calls,
                 returned>>

\* lines 183-188
SeleniumReturn ==
  /\ pc = "selenium_find"
  /\ selector > Len(comment_selectors)
  /\ seleniumResult' = Result(title, comments)
  /\ pc' = "selenium_finally"
  /\ UNCHANGED <<args, title, comments, failure, pending, elem, script,
                 selector, paging, browser, calls, staticResult, data, report>>

\* the session never released
DriverTruthyNever(d) == FALSE

\* line 194: `if driver:`
DriverTruthy(d) == d # None

\* lines 193-195: quit() may itself raise, which replaces the pending return
\* value; whether the session then stays open is not known
SeleniumFinally ==
  /\ pc = "selenium_finally"
  /\ \/ /\ DriverTruthy(driver)
        /\ quitCalls' = quitCalls + 1
        /\ sessionOpen' = FALSE
        /\ UNCHANGED <<failure, seleniumResult>>
     \/ /\ DriverTruthy(driver)
        /\ quitCalls' = quitCalls + 1
        /\ sessionOpen' \in BOOLEAN
        /\ failure' = "quit"
        /\ seleniumResult' = Raised
     \/ /\ ~DriverTruthy(driver)
        /\ UNCHANGED <<quitCalls, sessionOpen, failure, seleniumResult>>
  /\ pc' = "selenium_returned"
  /\ UNCHANGED <<args, title, comments, pending, elem, script, selector,
                 paging, driver, launches, calls, staticResult, data, report>>

\* a static record kept when the dynamic extractor returns None
SeleniumDataKeepOld(old, res) == IF res = Raised \/ res = None THEN old ELSE res

\* lines 277, 282: `data` after the call returned `res` or raised
SeleniumData(old, res) == IF res = Raised THEN old ELSE res

\* lines 276-284
MainAfterSelenium ==
  /\ pc = "selenium_returned"
  /\ data' = SeleniumData(data, seleniumResult)
  /\ pc' = "main_save"
  /\ UNCHANGED <<args, title, comments, failure, pending, elem, script,
                 selector, paging, browser, calls, staticResult,
                 seleniumResult, report>>

\* lines 287-307
MainSave ==
  /\ pc = "main_save"
  /\ report' = IF data # None THEN "summary" ELSE "blocked"
  /\ pc' = "done"
  /\ UNCHANGED <<args, title, comments, failure, pending, elem, script,
                 selector, paging, browser, calls, staticResult,
                 seleniumResult, data>>

Next ==
  \/ MainStart
  \/ RequestsGet
  \/ RequestsDiv
  \/ RequestsFindScripts
  \/ RequestsScript
  \/ RequestsReturn
  \/ MainAfterRequests
  \/ SeleniumLaunch
  \/ SeleniumLoad
  \/ SeleniumTitle
  \/ SeleniumScroll
  \/ SeleniumCue
  \/ SeleniumFind
  \/ SeleniumElem
  \/ SeleniumReturn
  \/ SeleniumFinally
  \/ MainAfterSelenium
  \/ MainSave

Spec == Init /\ [][Next]_vars

---------------------------------------------------------------------------
(* Properties.                                                             *)

Last(s) == s[Len(s)]

NoCommentsIn(r) == r = None \/ (r.ty = "dict" /\ r.comments = << >>)
ZeroRecord(r) == r.ty = "dict" /\ r.comments = << >>
WithComments(r) == r.ty = "dict" /\ r.comments # << >>
NoRecord(r) == r = None \/ r = Raised

AfterSelenium == pc \in {"selenium_returned", "main_save", "done"}

\* the comments of every result record an extractor has returned
ReturnedComments ==
  UNION { {r.comments[k] : k \in 1..Len(r.comments)} :
            r \in {x \in {staticResult, seleniumResult} : x.ty = "dict"} }

\* the entries of a block whose 'comments' value is a list
ListEntries(s) ==
  IF /\ s # NoScript
     /\ s.string.ty = "str"
     /\ s.string.parses
     /\ s.string.value.ty = "dict"
     /\ "comments" \in DOMAIN s.string.value.d
     /\ s.string.value.d["comments"].ty = "list"
    THEN s.string.value.d["comments"].items
    ELSE << >>

\* the comment the k-th entry of the block just processed has added
EntryComment(k) == comments[Len(comments) - Len(ListEntries(script)) + k]

\* a candidate of the selector cascade has just been examined and kept
CascadeKept ==
  /\ pc \in {"requests_divs", "selenium_elem"}
  /\ elem # NoElem
  /\ Len(Strip(elem.text)) > 20

\* C1: in one run of main the static extractor is called first and exactly
\* once; the dynamic extractor is called exactly once when the static result
\* is None or has no comments, and not at all when it has a comment; no
\* extractor is called twice.
C1_StaticFirstDynamicOnce ==
  /\ requestsCalls <= 1
  /\ seleniumCalls <= 1
  /\ (pc # "main_start" => requestsCalls = 1)
  /\ (seleniumCalls = 1 => staticResult # NotCalled /\ NoCommentsIn(staticResult))
  /\ (pc \in {"main_save", "done"} =>
        seleniumCalls = IF NoCommentsIn(staticResult) THEN 1 ELSE 0)

C1_Witness ==
  /\ pc = "done"
  /\ ZeroRecord(staticResult)
  /\ requestsCalls = 1
  /\ seleniumCalls = 1

\* C2: a browser session launched by scrape_with_selenium is released by
\* driver.quit() exactly once by the time the call is over, on every exit
\* path; when the call returns no session is open; none is released twice.
C2_SessionReleasedOnce ==
  /\ launches <= 1
  /\ quitCalls <= launches
  /\ (AfterSelenium /\ seleniumCalls = 1 => quitCalls = launches)
  /\ (AfterSelenium /\ seleniumResult # Raised => ~sessionOpen)

C2_Witness ==
  /\ pc = "selenium_returned"
  /\ failure = "TimeoutException"
  /\ launches = 1
  /\ quitCalls = 1
  /\ ~sessionOpen

\* C3: no extractor lets an error reach main: whatever fails, a failure of
\* driver.quit() included, the call returns a result record or None.
C3_NoErrorPropagates ==
  /\ staticResult # Raised
  /\ seleniumResult # Raised

\* C4 as claimed: main ends without a result record only if every extractor
\* it called ended without one; if a called extractor returned a record
\* without comments and none returned comments, main ends with a record
\* without comments.
C4_EmptinessDistinguished ==
  pc = "done" =>
    /\ (data = None =>
          /\ NoRecord(staticResult)
          /\ (seleniumCalls = 1 => NoRecord(seleniumResult)))
    /\ ( /\ ZeroRecord(staticResult) \/ (seleniumCalls = 1 /\ ZeroRecord(seleniumResult))
         /\ ~WithComments(staticResult)
         /\ ~(seleniumCalls = 1 /\ WithComments(seleniumResult))
         => ZeroRecord(data) )

\* C4 amended: main ends with what the last extractor that returned has
\* returned: the dynamic extractor's value when it was called and returned,
\* else the static extractor's; it reports a possible blocking exactly when
\* that value is None.
C4_LastReturnedWins ==
  pc = "done" =>
    /\ (seleniumCalls = 1 /\ seleniumResult # Raised => data = seleniumResult)
    /\ (seleniumCalls = 0 \/ seleniumResult = Raised => data = staticResult)
    /\ (report = "blocked" <=> data = None)
    /\ (report = "summary" <=> data # None)

C4_Witness ==
  /\ pc = "done"
  /\ ZeroRecord(staticResult)
  /\ seleniumResult = None
  /\ data = None
  /\ report = "blocked"

\* C5: scrape_with_selenium runs at most max_scroll pagination iterations; a
\* failed cue lookup or click leaves the call at the loop head with no error
\* recorded, and a call that returns a record has run all max_scroll
\* iterations.
C5_PaginationBounded ==
  /\ i <= max_scroll
  /\ scrolls <= max_scroll
  /\ (lastCue \in {"lookup_failed", "click_failed"} =>
        pc = "selenium_scroll" /\ failure = "" /\ seleniumResult = NotCalled)
  /\ (AfterSelenium /\ seleniumResult.ty = "dict" =>
        i = max_scroll /\ scrolls = max_scroll)

C5_Witness ==
  /\ pc = "selenium_scroll"
  /\ lastCue = "lookup_failed"
  /\ max_scroll = 5
  /\ i = 3
  /\ failure = ""

\* a block the claim calls malformed
Malformed(s) ==
  \/ s.string = None
  \/ ~s.string.parses
  \/ /\ s.string.value.ty = "dict"
     /\ "comments" \in DOMAIN s.string.value.d
     /\ LET cv == s.string.value.d["comments"]
        IN  \/ cv.ty # "list"
            \/ \E k \in 1..Len(cv.items) : cv.items[k].ty # "dict"

\* C6: a malformed script block is skipped: scrape_with_requests, once the
\* page was fetched, still returns a record holding every comment gathered
\* from the cascade and the other blocks.
C6_MalformedBlockSkipped ==
  ( /\ pc = "requests_returned"
    /\ script # NoScript
    /\ Malformed(script) )
  => /\ staticResult.ty = "dict"
     /\ staticResult.comments = comments

C8_SentinelsByPath ==
  /\ (CascadeKept /\ elem.author = None =>
        Last(comments).author = Str("Anonymous"))
  /\ (pc = "requests_scripts" =>
        \A k \in 1..Len(ListEntries(script)) :
          "author" \notin DOMAIN ListEntries(script)[k].d =>
            EntryComment(k).author = Str("Anonyme"))

\* C8 amended: the author is "Anonyme" on both paths.
C8_SentinelAnonyme ==
  /\ (CascadeKept /\ elem.author = None =>
        Last(comments).author = Str("Anonyme"))
  /\ (pc = "requests_scripts" =>
        \A k \in 1..Len(ListEntries(script)) :
          "author" \notin DOMAIN ListEntries(script)[k].d =>
            EntryComment(k).author = Str("Anonyme"))

C8_Witness ==
  /\ pc = "selenium_elem"
  /\ elem # NoElem
  /\ elem.author = None
  /\ comments # << >>
  /\ Last(comments).author = Str("Anonyme")
  /\ Last(comments).text = Str(Strip(elem.text))

\* C9: every comment of a returned record has a string date, the empty
\* string when the container has no date element or the embedded entry has
\* no date or a null date.
C9_DateAlwaysString ==
  /\ \A c \in ReturnedComments : c.date.ty = "str"
  /\ (CascadeKept /\ elem.date = None => Last(comments).date = Str(""))
  /\ (pc = "requests_scripts" =>
        \A k \in 1..Len(ListEntries(script)) :
          LET d == ListEntries(script)[k].d
          IN  ("date" \notin DOMAIN d \/ d["date"] = None) =>
                EntryComment(k).date = Str(""))

\* C10: every comment of a returned record has a non-empty text.
C10_TextNonEmpty ==
  \A c \in ReturnedComments : c.text.ty = "str" /\ c.text.s # << >>

====
